---- MODULE Spec2Model ----
(***************************************************************************)
(* Model of the paper pipeline of ai-reasoning-hub:                        *)
(*   tools/collect_weekly_papers.py  ingestion and dedup                   *)
(*   tools/summarize_papers.py       orchestrator (triage -> summary)      *)
(*   tools/llm_summary.py            provider adapter and relevance triage *)
(* Text is modelled as a sequence of one-character strings, so that the    *)
(* substring tests, strips and splits of the code are computed, not        *)
(* assumed.  The SQLite store is the committed table `db` together with    *)
(* the uncommitted view `pending` of the connection of the running script. *)
(***************************************************************************)
EXTENDS Integers, Sequences, FiniteSets, TLC

\* ------------------------------------------------------------------ bounds
MaxPapers == 2        \* rows the store may hold
MaxFeed == 2          \* candidates in one fetched feed
MaxIngests == 2       \* executions of collect_weekly_papers.py
MaxRuns == 2          \* executions of summarize_papers.py
MaxIds == 2            \* length of the explicit id list on the command line
MaxCards == 3          \* cards app.py renders
One == 1              \* feeds, executions and ids where a single one is explored

\* ------------------------------------------------------------- the state
VARIABLES
    db,        \* table papers as committed: row id = position (AUTOINCREMENT)
    pending,   \* the table as the open connection sees it (with uncommitted
               \* statements); equal to db when no transaction is open
    proc,      \* the script executing: "idle", "collect" or "summarize"
    collect,   \* locals of collect_weekly_papers.main
    run,       \* locals of summarize_papers.main
    visit,     \* what happened for the row being processed (observation)
    hist,      \* what happened across scripts (observation)
    page       \* the score blocks app.py has rendered, one per card

vars == <<db, pending, proc, collect, run, visit, hist, page>>

\* logical time: the number of scripts started so far
Clock == hist.ingests + hist.runs

\* ------------------------------------------------------- program constants
BATCH_LIMIT == 1
STOP_AFTER_ATTEMPT == 8
TLDR_SCAN == 6
TLDR_MAX == 280

\* SQL NULL / Python None: a text is a sequence of one-character strings, and
\* None is the one sequence that is no text; a nullable number is <<>> or <<n>>
Null == <<"None">>
NoInt == <<>>

\* --------------------------------------------------------------------- text
LowerLetters == <<"a","b","c","d","e","f","g","h","i","j","k","l","m",
                  "n","o","p","q","r","s","t","u","v","w","x","y","z">>
UpperLetters == <<"A","B","C","D","E","F","G","H","I","J","K","L","M",
                  "N","O","P","Q","R","S","T","U","V","W","X","Y","Z">>

LowerChar(c) ==
    IF \E i \in 1..26 : UpperLetters[i] = c
    THEN LowerLetters[CHOOSE i \in 1..26 : UpperLetters[i] = c]
    ELSE c

UpperChar(c) ==
    IF \E i \in 1..26 : LowerLetters[i] = c
    THEN UpperLetters[CHOOSE i \in 1..26 : LowerLetters[i] = c]
    ELSE c

Lower(s) == [i \in 1..Len(s) |-> LowerChar(s[i])]
Upper(s) == [i \in 1..Len(s) |-> UpperChar(s[i])]

\* Python: needle in s
Contains(s, needle) ==
    \E i \in 0..(Len(s) - Len(needle)) :
        SubSeq(s, i + 1, i + Len(needle)) = needle

StartsWith(s, prefix) ==
    /\ Len(prefix) <= Len(s)
    /\ SubSeq(s, 1, Len(prefix)) = prefix

\* Python str.strip(): removes every leading and trailing whitespace character
PyWhitespace == {" ", "\n", "\t", "\r"}

Strip(s) ==
    LET keep == {i \in 1..Len(s) : s[i] \notin PyWhitespace}
    IN  IF keep = {} THEN <<>>
        ELSE SubSeq(s, CHOOSE i \in keep : \A j \in keep : i <= j,
                       CHOOSE i \in keep : \A j \in keep : j <= i)

\* SQLite TRIM(x): removes leading and trailing spaces only
SqlTrim(s) ==
    LET keep == {i \in 1..Len(s) : s[i] # " "}
    IN  IF keep = {} THEN <<>>
        ELSE SubSeq(s, CHOOSE i \in keep : \A j \in keep : i <= j,
                       CHOOSE i \in keep : \A j \in keep : j <= i)

\* Python s.split(sep) for a one-character separator
RECURSIVE Split(_, _)
Split(s, sep) ==
    IF \A i \in 1..Len(s) : s[i] # sep THEN <<s>>
    ELSE LET k == CHOOSE i \in 1..Len(s) :
                      s[i] = sep /\ \A j \in 1..(i - 1) : s[j] # sep
         IN  <<SubSeq(s, 1, k - 1)>> \o Split(SubSeq(s, k + 1, Len(s)), sep)

\* Python s.split(sep, 1)[1], defined when sep occurs in s
AfterFirst(s, sep) ==
    LET k == CHOOSE i \in 1..Len(s) :
                 s[i] = sep /\ \A j \in 1..(i - 1) : s[j] # sep
    IN  SubSeq(s, k + 1, Len(s))

\* Python str.splitlines() over "\n": no trailing empty line, "" gives []
SplitLines(s) ==
    IF s = <<>> THEN <<>>
    ELSE LET parts == Split(s, "\n")
         IN  IF parts[Len(parts)] = <<>> THEN SubSeq(parts, 1, Len(parts) - 1)
             ELSE parts

\* Python s.replace(c, "")
RemoveChar(s, c) == SelectSeq(s, LAMBDA x : x # c)

\* Python truthiness of a value read from the row: None and "" are falsy
Truthy(s) == s # Null /\ s # <<>>

Min(a, b) == IF a <= b THEN a ELSE b

\* SQL COALESCE(x, '')
Coalesce(x) == IF x = Null THEN <<>> ELSE x

\* SQL: x IS NULL OR TRIM(x) = ''
SqlBlank(x) == x = Null \/ SqlTrim(x) = <<>>

\* SQL: haystack LIKE '%' || pattern || '%', for a pattern without '%':
\* '_' matches any one character, letters match without regard to case
LikeContains(haystack, pattern) ==
    /\ haystack # Null
    /\ \E i \in 0..(Len(haystack) - Len(pattern)) :
           \A j \in 1..Len(pattern) :
               \/ pattern[j] = "_"
               \/ LowerChar(pattern[j]) = LowerChar(haystack[i + j])

\* -------------------------------------------------------------- the feed
ArxivPrefix == <<"h","t","t","p","s",":","/","/","a","r","x","i","v",".",
                 "o","r","g","/","a","b","s","/">>
Title == <<"C","o","T">>
Abstract == <<"p","l","a","n">>

\* items of the daily_papers payload: one identifier is a substring of
\* another, one item has no identifier, titles and abstracts may be null
FeedItems ==
    { [id |-> <<"7">>,      title |-> Title, summary |-> Abstract],
      [id |-> <<"1", "7">>, title |-> Title, summary |-> Abstract],
      [id |-> <<"9">>,      title |-> Null,  summary |-> Abstract],
      [id |-> <<"9">>,      title |-> Title, summary |-> Null],
      [id |-> <<>>,         title |-> Title, summary |-> Abstract] }

FeedData == UNION { [1..n -> FeedItems] : n \in 0..MaxFeed }

RECURSIVE get_huggingface_papers(_)
get_huggingface_papers(data) ==
    IF data = <<>> THEN <<>>
    ELSE LET paper == Head(data)
             rest == get_huggingface_papers(Tail(data))
         IN  IF paper.id = <<>> \/ paper.id = Null THEN rest
             ELSE << [arxiv_id |-> paper.id,
                      title |-> paper.title,
                      abstract |-> paper.summary,
                      url |-> ArxivPrefix \o paper.id] >> \o rest

\* ------------------------------------------------------ llm_summary.py
OPENAI_MODEL == <<"g","p","t","-","4","o">>
ANTHROPIC_MODEL == <<"c","l","a","u","d","e">>
OLLAMA_MODEL == <<"l","l","a","m","a">>
GEMINI_MODEL == <<"g","e","m","i","n","i">>
FallbackModel == <<"g","p","t","-","4","o","-","m","i","n","i"," ",
                   "(","f","a","l","l","b","a","c","k",")">>

\* SUMMARY_PROVIDER, lower-cased; "mistral" stands for every other value
Providers == {"openai", "anthropic", "ollama", "mistral"}

\* the environment of one execution: the provider mode and whether
\* `from openai import ...` succeeded at module scope (lines 13-18)
Envs == [provider : Providers, openai_sdk : BOOLEAN]

\* exceptions of the openai SDK that derive from openai.APIError
OpenaiApiErrors == {"openai.RateLimitError", "openai.InternalServerError",
                    "openai.AuthenticationError"}

\* failures that are worth another attempt: rate limit, server error, network
TransientErrors == {"openai.RateLimitError", "openai.InternalServerError",
                    "anthropic.RateLimitError", "requests.ConnectionError"}

\* the retry predicate of the decorator, lines 13-24: the three names are the
\* openai classes, or all of them Exception when the import failed
retry_if_exception_type(env, exc) ==
    IF env.openai_sdk THEN exc \in OpenaiApiErrors ELSE TRUE

\* documents a backend may answer a summary prompt with
TldrDoc == <<"#"," ","T","L","D","R","\n","\n","F","o","o",".","\n",
             "#","#"," ","P","r","o","b","l","e","m">>
MarkerDoc == <<"F","o","o"," ","[","S","k","i","p","p","e","d","]">>
BlankDoc == <<" ","\n">>
\* documents that exercise extract_tldr: a line longer than the digest limit
\* after a TLDR heading and without one, a heading whose text comes after
\* more blank lines than extract_tldr scans, and the empty document
LongLine == [i \in 1..(TLDR_MAX + 1) |-> "x"]
LongTldrDoc == <<"#"," ","T","L","D","R","\n">> \o LongLine
LongPlainDoc == LongLine
FarTldrDoc == <<"#","#"," ","T","L",";","D","R","\n","\n","\n","\n","\n","\n",
                "F","o","o">>
EmptyDoc == <<>>
CoreTexts == {TldrDoc, MarkerDoc, BlankDoc}
DigestTexts == {LongTldrDoc, LongPlainDoc, FarTldrDoc, EmptyDoc}
SummaryTexts == CoreTexts \cup DigestTexts
UsageTokens == 9

Returned(text, tokens, model) ==
    [kind |-> "return", text |-> text, tokens |-> tokens, model |-> model,
     exc |-> "none"]
Raised(exc) ==
    [kind |-> "raise", text |-> Null, tokens |-> NoInt, model |-> Null,
     exc |-> exc]

\* what one execution of the body of call_llm (lines 25-72) can end in
call_llm_body(env) ==
    IF env.provider = "openai" THEN
        IF ~env.openai_sdk THEN {Raised("RuntimeError")}
        ELSE {Raised("openai.OpenAIError"),          \* no API key: OpenAI()
              Raised("openai.RateLimitError"),
              Raised("openai.AuthenticationError")}
             \cup {Returned(t, <<UsageTokens>>, OPENAI_MODEL) : t \in SummaryTexts}
    ELSE IF env.provider = "anthropic" THEN
        {Raised("ImportError"),
         Raised("anthropic.RateLimitError"),
         Raised("anthropic.AuthenticationError")}
        \cup {Returned(t, NoInt, ANTHROPIC_MODEL) : t \in SummaryTexts}
    ELSE IF env.provider = "ollama" THEN
        {Raised("requests.ConnectionError"),
         Raised("requests.HTTPError")}
        \cup {Returned(t, NoInt, OLLAMA_MODEL) : t \in SummaryTexts}
    ELSE {Raised("RuntimeError")}

\* classifier answers
YesText == <<"R","E","L","E","V","A","N","T",":"," ","Y","E","S","\n",
             "R","E","A","S","O","N",":"," ","c","o","t">>
NoText == <<"R","E","L","E","V","A","N","T",":"," ","N","O","\n",
            "R","E","A","S","O","N",":"," ","g","p","u">>
NoBlankText == <<"R","E","L","E","V","A","N","T",":"," ","N","O","\n",
                 "R","E","A","S","O","N",":">>
VagueText == <<"m","a","y","b","e">>
TriageTexts == {YesText, NoText, NoBlankText}

\* answers that vary the letter case and carry text after the verdict: the
\* verdict in lower case, a reason that quotes the other verdict, and a note
\* behind the reason line
LowerYesText ==
    <<"r","e","l","e","v","a","n","t",":"," ","y","e","s","\n","r","e","a",
      "s","o","n",":"," ","c","o","t">>
QuoteText ==
    <<"R","E","L","E","V","A","N","T",":"," ","N","O","\n","R","E","A","S",
      "O","N",":"," ","n","o","t"," ","R","E","L","E","V","A","N","T",":",
      " ","Y","E","S">>
TrailingText ==
    <<"R","E","L","E","V","A","N","T",":"," ","N","O","\n","R","E","A","S",
      "O","N",":"," ","g","p","u","\n","n","o","t","e",":"," ","x">>
ParseTexts == {YesText, NoText, LowerYesText, QuoteText, TrailingText}

RelevantYes == <<"R","E","L","E","V","A","N","T",":"," ","Y","E","S">>
ReasonTag == <<"R","E","A","S","O","N",":">>
NoReasonProvided == <<"N","o"," ","r","e","a","s","o","n"," ",
                      "p","r","o","v","i","d","e","d">>

\* lines 132-134 and 180-182: verdict and reason of a classifier answer
ParseRelevant(text) == Contains(Upper(text), RelevantYes)

ParseReason(text, default) ==
    LET lines == Split(text, "\n")
        reason_line == SelectSeq(lines, LAMBDA l : Contains(Upper(l), ReasonTag))
    IN  IF reason_line # <<>> THEN Strip(AfterFirst(reason_line[1], ":"))
        ELSE default

\* triage_paper, primary path, lines 129-141
triage_paper_parse(response_text) ==
    LET text == Strip(response_text)
    IN  [relevant |-> ParseRelevant(text),
         reason |-> ParseReason(text, NoReasonProvided),
         model |-> GEMINI_MODEL,
         tokens |-> 0]

\* triage_with_openai, lines 179-189
triage_with_openai_parse(text, usage) ==
    [relevant |-> ParseRelevant(text),
     reason |-> ParseReason(text, text),
     model |-> FallbackModel,
     tokens |-> IF usage = NoInt THEN 0 ELSE usage[1]]

\* -------------------------------------------------- summarize_papers.py
SkipMarker == <<"[","S","k","i","p","p","e","d">>
SkipSentinel == <<"[","S","k","i","p","p","e","d"," ","-"," ","N","o","t"," ",
                  "r","e","l","e","v","a","n","t"," ","t","o"," ",
                  "r","e","a","s","o","n","i","n","g","]">>
H1Tldr == <<"#"," ","t","l","d","r">>
H2Tldr == <<"#","#"," ","t","l","d","r">>

\* extract_tldr, lines 129-142
extract_tldr(markdown) ==
    LET raw == SplitLines(markdown)
        lines == [i \in 1..Len(raw) |-> Strip(raw[i])]
        n == Len(lines)
        IsHeading(i) ==
            LET low == RemoveChar(Lower(lines[i]), ";")
            IN  StartsWith(low, H1Tldr) \/ StartsWith(low, H2Tldr)
        Window(i) == {j \in (i + 1)..Min(i + TLDR_SCAN - 1, n) : lines[j] # <<>>}
        hits == {i \in 1..n : IsHeading(i) /\ Window(i) # {}}
        nonempty == {i \in 1..n : lines[i] # <<>>}
        least(S) == CHOOSE i \in S : \A j \in S : i <= j
    IN  IF hits # {} THEN lines[least(Window(least(hits)))]
        ELSE IF nonempty # {}
             THEN SubSeq(lines[least(nonempty)], 1,
                         Min(TLDR_MAX, Len(lines[least(nonempty)])))
        ELSE <<>>

\* the dict fetch_papers builds of a table row, lines 74-79 and 99-100
RowDict(conn, i) ==
    [id |-> i,
     title |-> conn[i].title,
     abstract |-> conn[i].abstract,
     summary_md |-> Coalesce(conn[i].summary_md),
     tldr |-> Coalesce(conn[i].tldr)]

\* the ids of S in descending order, at most limit of them
RECURSIVE DescLimit(_, _)
DescLimit(S, limit) ==
    IF S = {} \/ limit = 0 THEN <<>>
    ELSE LET m == CHOOSE i \in S : \A j \in S : j <= i
         IN  <<m>> \o DescLimit(S \ {m}, limit - 1)

\* Variant of NeedsSummary that asks for both the summary and the digest to
\* be missing.
NeedsSummaryAndDigest(conn, i) ==
    SqlBlank(conn[i].summary_md) /\ SqlBlank(conn[i].tldr)

\* WHERE clause of the default selection, lines 91-92
NeedsSummary(conn, i) ==
    SqlBlank(conn[i].summary_md) \/ SqlBlank(conn[i].tldr)

\* Variant of fetch_papers whose default selection has no WHERE clause.
fetch_papers_unfiltered(conn, ids, force) ==
    LET all == 1..Len(conn)
        picked ==
            IF ids # <<>> THEN SelectSeq(ids, LAMBDA i : i \in all)
            ELSE DescLimit(all, BATCH_LIMIT)
    IN  [k \in 1..Len(picked) |-> RowDict(conn, picked[k])]

\* fetch_papers, lines 73-109
fetch_papers(conn, ids, force) ==
    LET all == 1..Len(conn)
        picked ==
            IF ids # <<>> THEN SelectSeq(ids, LAMBDA i : i \in all)
            ELSE IF force THEN DescLimit(all, BATCH_LIMIT)
            ELSE DescLimit({i \in all : NeedsSummary(conn, i)}, BATCH_LIMIT)
    IN  [k \in 1..Len(picked) |-> RowDict(conn, picked[k])]

\* lines 170-171
has_real_summary(row) ==
    Truthy(row.summary_md) /\ ~Contains(row.summary_md, SkipMarker)

\* the UPDATE of the skip outcome, lines 185-188
SkipUpdate(conn, pid, reason) ==
    [conn EXCEPT ![pid].summary_md = SkipSentinel, ![pid].tldr = reason]

\* Variant of save_summary that stores the summary and leaves the digest for
\* a later statement.
save_summary_without_digest(conn, pid, summary_md, tldr, model, tokens) ==
    [conn EXCEPT ![pid].summary_md = summary_md,
                 ![pid].model_used = model,
                 ![pid].summary_tokens = tokens,
                 ![pid].last_summarized_at = <<Clock>>]

\* the UPDATE of save_summary, lines 112-125
save_summary(conn, pid, summary_md, tldr, model, tokens) ==
    [conn EXCEPT ![pid].summary_md = summary_md,
                 ![pid].tldr = tldr,
                 ![pid].model_used = model,
                 ![pid].summary_tokens = tokens,
                 ![pid].last_summarized_at = <<Clock>>]

\* ------------------------------------------------------------ the store
\* outcome of conn.execute(statement); conn.commit():
\*   "ok"           both succeed
\*   "execute_fail" the statement raises, nothing is changed
\*   "commit_busy"  the statement succeeds and COMMIT raises (database is
\*                  locked): SQLite keeps the transaction open, so a later
\*                  commit of this connection persists the statement, and
\*                  closing the connection discards it
WriteOutcomes == {"ok", "execute_fail", "commit_busy"}

PendingAfter(w, outcome) == IF outcome = "execute_fail" THEN pending ELSE w
DbAfter(w, outcome) == IF outcome = "ok" THEN w ELSE db

\* ------------------------------------------- collect_weekly_papers.py
\* Variant of paper_exists that never finds the identifier.
paper_exists_never(conn, arxiv_id) == FALSE

\* paper_exists, lines 51-57: SELECT COUNT(*) ... WHERE arxiv_link LIKE %id%
paper_exists(conn, arxiv_id) ==
    Cardinality({i \in 1..Len(conn) :
                    LikeContains(conn[i].arxiv_link, arxiv_id)}) > 0

\* the row INSERT builds: the processing columns are left at their default
NewRow(paper) ==
    [arxiv_id |-> paper.arxiv_id,
     title |-> paper.title,
     abstract |-> paper.abstract,
     arxiv_link |-> paper.url,
     date_added |-> <<Clock>>,
     summary_md |-> Null,
     tldr |-> Null,
     model_used |-> Null,
     summary_tokens |-> NoInt,
     last_summarized_at |-> NoInt,
     excitement_score |-> NoInt]

\* add_paper_to_db, lines 60-96: INSERT and commit
add_paper_to_db(paper, outcome) ==
    /\ pending' = PendingAfter(Append(pending, NewRow(paper)), outcome)
    /\ db' = DbAfter(Append(pending, NewRow(paper)), outcome)

NoCollect ==
    [papers |-> <<>>, new_count |-> 0, skipped_count |-> 0, crashed |-> FALSE,
     exact_skips |-> 0, inexact_skips |-> 0, n |-> 0, len0 |-> 0]

NoVisit ==
    [pid |-> 0, status |-> "none", triage |-> "none", reason |-> Null,
     model |-> Null,
     primary_failed |-> FALSE, fallback_calls |-> 0, summarizer_calls |-> 0,
     attempts |-> 0, waits |-> 0, exc |-> "none", skip_write |-> "none",
     answer |-> Null]

NoRun ==
    [pc |-> "done", ids |-> <<>>, force |-> FALSE,
     env |-> [provider |-> "openai", openai_sdk |-> TRUE],
     rows |-> <<>>, idx |-> 1, attempt |-> 0,
     triaged_count |-> 0, skipped_count |-> 0, summarized_count |-> 0,
     total_triage_tokens |-> 0,
     db0 |-> <<>>, failed |-> {}, wrote |-> {}]

\* main, lines 100-121: fetch the feed; nothing found ends the script
CollectStart(data, limit) ==
    /\ proc = "idle"
    /\ hist.ingests < limit
    /\ hist' = [hist EXCEPT !.ingests = @ + 1, !.lastOp = "collect",
                            !.repeat = FALSE]
    /\ LET papers == get_huggingface_papers(data)
       IN  /\ proc' = IF papers = <<>> THEN "idle" ELSE "collect"
           /\ collect' = [NoCollect EXCEPT !.papers = papers,
                                           !.n = Len(papers),
                                           !.len0 = Len(db)]
    /\ run' = NoRun
    /\ visit' = NoVisit
    /\ UNCHANGED <<db, pending>>
    /\ UNCHANGED page

\* main, lines 123-126: the candidate is found in the store
CollectSkip ==
    /\ proc = "collect"
    /\ collect.papers # <<>>
    /\ paper_exists(pending, Head(collect.papers).arxiv_id)
    /\ collect' = [collect EXCEPT
           !.papers = Tail(@),
           !.skipped_count = @ + 1,
           !.exact_skips =
               IF \E i \in 1..Len(db) :
                      db[i].arxiv_id = Head(collect.papers).arxiv_id
               THEN @ + 1 ELSE @,
           !.inexact_skips =
               IF \E i \in 1..Len(pending) :
                      pending[i].arxiv_id = Head(collect.papers).arxiv_id
               THEN @ ELSE @ + 1]
    /\ UNCHANGED <<db, pending, proc, run, visit, hist>>
    /\ UNCHANGED page

\* main, lines 128-130: the candidate is inserted; printing the title of an
\* added paper slices it, which raises TypeError for a null title
CollectAdd(outcome) ==
    /\ proc = "collect"
    /\ collect.papers # <<>>
    /\ LET paper == Head(collect.papers)
       IN  /\ ~paper_exists(pending, paper.arxiv_id)
           /\ outcome # "execute_fail" => Len(pending) < MaxPapers
           /\ add_paper_to_db(paper, outcome)
           /\ IF outcome = "ok" /\ paper.title = Null
              THEN /\ proc' = "idle"
                   /\ collect' = [collect EXCEPT !.crashed = TRUE,
                                                  !.new_count = @ + 1]
              ELSE /\ proc' = proc
                   /\ collect' = [collect EXCEPT
                          !.papers = Tail(@),
                          !.new_count = IF outcome = "ok" THEN @ + 1 ELSE @]
    /\ UNCHANGED <<run, visit, hist>>
    /\ UNCHANGED page

\* main, lines 132-139: close the connection and report
CollectFinish ==
    /\ proc = "collect"
    /\ collect.papers = <<>>
    /\ proc' = "idle"
    /\ pending' = db
    /\ UNCHANGED <<db, collect, run, visit, hist>>
    /\ UNCHANGED page

\* main, lines 134-137: the counts the script prints
CollectReport ==
    [added |-> collect.new_count, skipped |-> collect.skipped_count]

\* ------------------------------------------------ summarize_papers.main
\* id lists of the command line: ids of the table and one id beyond it
IdsLists(maxlen) == UNION { [1..n -> 1..(Len(db) + 1)] : n \in 0..maxlen }

Row == run.rows[run.idx]

IsDefaultRun == run.ids = <<>> /\ ~run.force

\* `continue`, or the end of the loop body: on to the next row
NextRow(r) == [r EXCEPT !.pc = "loop", !.idx = @ + 1, !.attempt = 0]

\* main, lines 146-163: select the rows; an empty selection returns at once
SummarizeStart(ids, force, env, limit) ==
    /\ proc = "idle"
    /\ hist.runs < limit
    /\ LET rows == fetch_papers(db, ids, force)
           kind == IF ids = <<>> /\ ~force THEN "default" ELSE "other"
       IN  /\ run' = [NoRun EXCEPT !.pc = IF rows = <<>> THEN "done" ELSE "loop",
                                   !.ids = ids, !.force = force, !.env = env,
                                   !.rows = rows, !.db0 = db]
           /\ proc' = IF rows = <<>> THEN "idle" ELSE "summarize"
           /\ hist' = [hist EXCEPT
                  !.runs = @ + 1,
                  !.repeat = (hist.lastOp = "default" /\ kind = "default"),
                  !.lastOp = IF rows = <<>> THEN kind ELSE "running",
                  !.reported = FALSE]
    /\ visit' = NoVisit
    /\ collect' = NoCollect
    /\ UNCHANGED <<db, pending>>
    /\ UNCHANGED page

\* lines 165-174: a row that has a real summary is passed over
VisitAlreadySummarized ==
    /\ proc = "summarize" /\ run.pc = "loop" /\ run.idx <= Len(run.rows)
    /\ has_real_summary(Row) /\ ~run.force
    /\ run' = NextRow(run)
    /\ visit' = [NoVisit EXCEPT !.pid = Row.id, !.status = "already"]
    /\ UNCHANGED <<db, pending, proc, collect, hist>>
    /\ UNCHANGED page

\* lines 165-176: the row is to be processed; the progress line slices the
\* title, and for a null title that raises TypeError outside every try, so
\* the script ends in `finally` (the connection is closed)
VisitRow ==
    /\ proc = "summarize" /\ run.pc = "loop" /\ run.idx <= Len(run.rows)
    /\ ~(has_real_summary(Row) /\ ~run.force)
    /\ IF Row.title = Null
       THEN /\ run' = [run EXCEPT !.pc = "crashed"]
            /\ visit' = [NoVisit EXCEPT !.pid = Row.id, !.status = "crashed",
                                        !.exc = "TypeError"]
            /\ proc' = "idle"
            /\ pending' = db
            /\ hist' = [hist EXCEPT !.lastOp = "crashed"]
       ELSE /\ run' = [run EXCEPT !.pc = "triage"]
            /\ visit' = [NoVisit EXCEPT !.pid = Row.id, !.status = "open"]
            /\ UNCHANGED <<proc, pending, hist>>
    /\ UNCHANGED <<db, collect>>
    /\ UNCHANGED page

\* lines 179-194 for a triage result: count it; a paper that is not relevant
\* gets the skip sentinel, and a failure of that write lands in the handler
\* of line 193, which goes on to the summary
OnTriageResult(answer, result, outcome, fallback) ==
    LET counted == [run EXCEPT
            !.triaged_count = @ + 1,
            !.total_triage_tokens = @ + result.tokens,
            !.skipped_count = IF result.relevant THEN @ ELSE @ + 1]
        w == SkipUpdate(pending, Row.id, result.reason)
        seen == [visit EXCEPT
            !.triage = IF result.relevant THEN "relevant" ELSE "irrelevant",
            !.reason = result.reason,
            !.model = result.model,
            !.fallback_calls = @ + fallback,
            !.answer = answer]
    IN  IF result.relevant
        THEN /\ outcome = "ok"
             /\ run' = [counted EXCEPT !.pc = "summarize", !.attempt = 1]
             /\ visit' = seen
             /\ UNCHANGED <<db, pending>>
        ELSE /\ pending' = PendingAfter(w, outcome)
             /\ db' = DbAfter(w, outcome)
             /\ run' = IF outcome = "ok"
                       THEN [NextRow(counted) EXCEPT !.wrote = @ \cup {Row.id}]
                       ELSE [counted EXCEPT !.pc = "summarize", !.attempt = 1]
             /\ visit' = [seen EXCEPT
                    !.skip_write = outcome,
                    !.status = IF outcome = "ok" THEN "skipped" ELSE @]

\* triage_paper, lines 110-141: the primary classifier answers
TriagePrimary(text, outcome) ==
    /\ proc = "summarize" /\ run.pc = "triage"
    /\ OnTriageResult(text, triage_paper_parse(text), outcome, 0)
    /\ UNCHANGED <<proc, collect, hist>>
    /\ UNCHANGED page

\* Variant of TriagePrimaryFails in which the failure of the primary path is
\* the failure of triage, without a fallback call.
TriagePrimaryFailsNoFallback ==
    /\ proc = "summarize" /\ run.pc = "triage"
    /\ run' = [run EXCEPT !.pc = "summarize", !.attempt = 1]
    /\ visit' = [visit EXCEPT !.primary_failed = TRUE, !.triage = "raised"]
    /\ UNCHANGED <<db, pending, proc, collect, hist>>
    /\ UNCHANGED page

\* triage_paper, lines 143-148: the primary path raises (the import, the
\* missing GOOGLE_API_KEY, the request, reading response.text) and the
\* handler calls the fallback
TriagePrimaryFails ==
    /\ proc = "summarize" /\ run.pc = "triage"
    /\ run' = [run EXCEPT !.pc = "fallback"]
    /\ visit' = [visit EXCEPT !.primary_failed = TRUE]
    /\ UNCHANGED <<db, pending, proc, collect, hist>>
    /\ UNCHANGED page

\* triage_with_openai, lines 151-189: the fallback classifier answers
TriageFallback(text, usage, outcome) ==
    /\ proc = "summarize" /\ run.pc = "fallback"
    /\ run.env.openai_sdk
    /\ OnTriageResult(text, triage_with_openai_parse(text, usage), outcome, 1)
    /\ UNCHANGED <<proc, collect, hist>>
    /\ UNCHANGED page

\* Variant of TriageFallbackFails in which a failed triage ends the visit of
\* the row instead of assuming relevance.
TriageFallbackFailsEndsVisit ==
    /\ proc = "summarize" /\ run.pc = "fallback"
    /\ run' = NextRow(run)
    /\ visit' = [visit EXCEPT !.fallback_calls = @ + 1, !.triage = "raised"]
    /\ UNCHANGED <<db, pending, proc, collect, hist>>
    /\ UNCHANGED page

\* triage_with_openai raises (the import of line 153, the client, the
\* request), so triage_paper raises; main, lines 193-194, goes on
TriageFallbackFails ==
    /\ proc = "summarize" /\ run.pc = "fallback"
    /\ run' = [run EXCEPT !.pc = "summarize", !.attempt = 1]
    /\ visit' = [visit EXCEPT !.fallback_calls = @ + 1, !.triage = "raised"]
    /\ UNCHANGED <<db, pending, proc, collect, hist>>
    /\ UNCHANGED page

\* lines 196-203: call_llm returns; the summary is saved and counted
SummarizeSucceeds(resp, outcome) ==
    /\ proc = "summarize" /\ run.pc = "summarize"
    /\ resp \in call_llm_body(run.env)
    /\ resp.kind = "return"
    /\ LET md == Strip(Coalesce(resp.text))
           tldr == extract_tldr(md)
           w == save_summary(pending, Row.id, md, tldr, resp.model, resp.tokens)
       IN  /\ pending' = PendingAfter(w, outcome)
           /\ db' = DbAfter(w, outcome)
    /\ run' = [NextRow(run) EXCEPT
           !.summarized_count = IF outcome = "ok" THEN @ + 1 ELSE @,
           !.wrote = IF outcome = "ok" THEN @ \cup {Row.id} ELSE @,
           !.failed = IF outcome = "ok" THEN @ ELSE @ \cup {Row.id}]
    /\ visit' = [visit EXCEPT
           !.summarizer_calls = IF run.attempt = 1 THEN @ + 1 ELSE @,
           !.attempts = @ + 1,
           !.exc = "none",
           !.status = IF outcome = "ok" THEN "summarized" ELSE "save_failed"]
    /\ UNCHANGED <<proc, collect, hist>>
    /\ UNCHANGED page

\* the decorator of call_llm, lines 20-24: the body raised an exception the
\* predicate accepts and attempts are left, so it waits and runs the body again
CallLlmRetry(resp) ==
    /\ proc = "summarize" /\ run.pc = "summarize"
    /\ resp \in call_llm_body(run.env)
    /\ resp.kind = "raise"
    /\ retry_if_exception_type(run.env, resp.exc)
    /\ run.attempt < STOP_AFTER_ATTEMPT
    /\ run' = [run EXCEPT !.attempt = @ + 1]
    /\ visit' = [visit EXCEPT
           !.summarizer_calls = IF run.attempt = 1 THEN @ + 1 ELSE @,
           !.attempts = @ + 1, !.waits = @ + 1, !.exc = resp.exc]
    /\ UNCHANGED <<db, pending, proc, collect, hist>>
    /\ UNCHANGED page

\* call_llm raises (an exception the predicate rejects, or the last attempt
\* failed); main, lines 204-205, logs it and goes on
SummarizeFails(resp) ==
    /\ proc = "summarize" /\ run.pc = "summarize"
    /\ resp \in call_llm_body(run.env)
    /\ resp.kind = "raise"
    /\ \/ ~retry_if_exception_type(run.env, resp.exc)
       \/ run.attempt >= STOP_AFTER_ATTEMPT
    /\ run' = [NextRow(run) EXCEPT !.failed = @ \cup {Row.id}]
    /\ visit' = [visit EXCEPT
           !.summarizer_calls = IF run.attempt = 1 THEN @ + 1 ELSE @,
           !.attempts = @ + 1, !.exc = resp.exc, !.status = "llm_failed"]
    /\ UNCHANGED <<db, pending, proc, collect, hist>>
    /\ UNCHANGED page

\* lines 165-223: the execution is interrupted while a row is processed
\* (KeyboardInterrupt passes the handlers of lines 193 and 204, or the process
\* is killed); the connection is closed in `finally` or lost, which discards
\* the open transaction, and nothing is reported
Interrupt ==
    /\ proc = "summarize"
    /\ run' = [run EXCEPT !.pc = "interrupted"]
    /\ proc' = "idle"
    /\ pending' = db
    /\ hist' = [hist EXCEPT !.lastOp = "interrupted"]
    /\ UNCHANGED <<db, collect, visit>>
    /\ UNCHANGED page

\* lines 207-221: what the pipeline summary prints; the pass rate and the
\* estimated cost are printed under a condition
PipelineSummary ==
    [triaged |-> run.triaged_count,
     skipped |-> run.skipped_count,
     summarized |-> run.summarized_count,
     pass_rate_shown |-> run.triaged_count > 0,
     triage_tokens |-> run.total_triage_tokens,
     cost_shown |-> run.summarized_count > 0]

\* lines 207-223: the pipeline summary, then the connection is closed
Report ==
    /\ proc = "summarize" /\ run.pc = "loop" /\ run.idx > Len(run.rows)
    /\ run' = NoRun
    /\ visit' = NoVisit
    /\ proc' = "idle"
    /\ pending' = db
    /\ hist' = [hist EXCEPT !.lastOp = IF IsDefaultRun THEN "default" ELSE "other",
                            !.reported = TRUE]
    /\ UNCHANGED <<db, collect>>
    /\ UNCHANGED page

\* ---------------------------------------------------------------- app.py
Novelty == <<"N","o","v","e","l","t","y">>
Impact == <<"I","m","p","a","c","t">>
Results == <<"R","e","s","u","l","t","s">>
Access == <<"A","c","c","e","s","s">>

\* line 298
labels == <<Novelty, Impact, Results, Access>>

\* line 6
BREAKDOWN_MAX(label) ==
    IF label = Novelty THEN 3
    ELSE IF label = Impact THEN 4
    ELSE IF label = Results THEN 2
    ELSE IF label = Access THEN 1
    ELSE 0

\* parse_breakdown, lines 69-75: the pairs key:value of the comma-separated
\* text, keys and values stripped, in the order of the text
parse_breakdown(breakdown) ==
    LET kvs == SelectSeq(Split(breakdown, ","), LAMBDA kv : Contains(kv, <<":">>))
    IN  [n \in 1..Len(kvs) |->
            [k |-> Strip(Split(kvs[n], ":")[1]),
             v |-> Strip(AfterFirst(kvs[n], ":"))]]

\* dict.get on the result of parse_breakdown: the last pair of a key counts
BdGet(bd, label, default) ==
    LET hits == {n \in 1..Len(bd) : bd[n].k = label}
    IN  IF hits = {} THEN default
        ELSE bd[CHOOSE n \in hits : \A m \in hits : m <= n].v

Digits == <<"0","1","2","3","4","5","6","7","8","9">>
IsDigit(c) == \E d \in 1..10 : Digits[d] = c
DigitValue(c) == (CHOOSE d \in 1..10 : Digits[d] = c) - 1

RECURSIVE Decimal(_)
Decimal(s) ==
    IF s = <<>> THEN 0
    ELSE 10 * Decimal(SubSeq(s, 1, Len(s) - 1)) + DigitValue(s[Len(s)])

AllDigits(s) == \A n \in 1..Len(s) : IsDigit(s[n])

Infinity == <<"i","n","f">>

\* int(float(v)) for a text v: an optional sign, digits and an optional
\* fraction give the integer part; "inf" is a float that int() refuses with
\* OverflowError; any other text is no float (ValueError)
IntOfFloat(v) ==
    LET neg == v # <<>> /\ v[1] = "-"
        u == IF v # <<>> /\ v[1] \in {"-", "+"} THEN Tail(v) ELSE v
        parts == Split(u, ".")
        whole == parts[1]
        frac == IF Len(parts) = 2 THEN parts[2] ELSE <<>>
    IN  IF Lower(u) = Infinity THEN [kind |-> "OverflowError", int |-> 0]
        ELSE IF /\ Len(parts) <= 2
                /\ AllDigits(whole) /\ AllDigits(frac)
                /\ whole \o frac # <<>>
             THEN [kind |-> "int",
                   int |-> IF neg THEN 0 - Decimal(whole) ELSE Decimal(whole)]
        ELSE [kind |-> "ValueError", int |-> 0]

\* _safe_int, lines 300-304, applied to `bd.get(label, 0) or 0`, line 308
\* (a missing or empty value is the integer 0); TypeError and ValueError
\* give 0, OverflowError is not caught
safe_int(v) ==
    IF v = <<>> THEN [kind |-> "int", int |-> 0]
    ELSE LET r == IntOfFloat(v)
         IN  IF r.kind = "ValueError" THEN [kind |-> "int", int |-> 0] ELSE r

\* lines 296-319: the score block of a card: nothing for a score of 0, else
\* for each label the value and the maximum shown as "label val/max"
ScoreBlock(score, breakdown) ==
    LET bd == parse_breakdown(breakdown)
        val(n) == safe_int(BdGet(bd, labels[n], <<>>))
    IN  IF score = 0 THEN [shown |-> FALSE, raised |-> FALSE, bits |-> <<>>]
        ELSE IF \E n \in 1..Len(labels) : val(n).kind = "OverflowError"
             THEN [shown |-> FALSE, raised |-> TRUE, bits |-> <<>>]
        ELSE [shown |-> TRUE, raised |-> FALSE,
              bits |-> [n \in 1..Len(labels) |->
                           [label |-> labels[n],
                            val |-> val(n).int,
                            max_val |-> BREAKDOWN_MAX(labels[n])]]]

\* score_breakdown texts a row may hold (the column is written outside these
\* sources)
\* every dimension at its maximum
FullBreakdown ==
    <<"N","o","v","e","l","t","y",":","3",",","I","m","p","a","c","t",":",
      "4",",","R","e","s","u","l","t","s",":","2",",","A","c","c","e","s",
      "s",":","1">>
\* a value above the maximum of its dimension
OverBreakdown ==
    <<"N","o","v","e","l","t","y",":","5",",","I","m","p","a","c","t",":",
      "4">>
\* spaces, a fraction and a value that is no number
SpacedBreakdown ==
    <<"N","o","v","e","l","t","y",":"," ","2",".","7"," ",","," ","I","m",
      "p","a","c","t",":","x">>
\* a dimension given twice
TwiceBreakdown ==
    <<"A","c","c","e","s","s",":","1",",","A","c","c","e","s","s",":","9">>
\* a negative value
NegativeBreakdown ==
    <<"R","e","s","u","l","t","s",":","-","1">>
\* a value float() reads as infinity
InfBreakdown ==
    <<"I","m","p","a","c","t",":","i","n","f">>
BreakdownTexts ==
    {FullBreakdown, OverBreakdown, SpacedBreakdown, TwiceBreakdown,
     NegativeBreakdown, InfBreakdown, <<>>}

\* excitement_score values: unscored and scored
Scores == {0, 7}

\* lines 266-319: a card is rendered for a row with the given score and
\* stored breakdown text
RenderCard(score, breakdown) ==
    /\ Len(page) < MaxCards
    /\ page' = Append(page, ScoreBlock(score, breakdown))
    /\ UNCHANGED <<db, pending, proc, collect, run, visit, hist>>

\* ---------------------------------------------------------- the system
Init ==
    /\ db = <<>>
    /\ pending = <<>>
    /\ proc = "idle"
    /\ collect = NoCollect
    /\ run = NoRun
    /\ visit = NoVisit
    /\ hist = [ingests |-> 0, runs |-> 0, lastOp |-> "none", repeat |-> FALSE,
               reported |-> FALSE]
    /\ page = <<>>

\* the steps of collect_weekly_papers.py once started
CollectSteps ==
    \/ CollectSkip
    \/ \E outcome \in WriteOutcomes : CollectAdd(outcome)
    \/ CollectFinish

DefaultEnv == [provider |-> "openai", openai_sdk |-> TRUE]

\* what one attempt of call_llm can end in, in any environment
Responses == UNION {call_llm_body(env) : env \in Envs}

\* a backend without retried failures: it answers, or fails for good
Steady(env) ==
    {r \in call_llm_body(env) :
        r.kind = "return" \/ ~retry_if_exception_type(env, r.exc)}

\* the results whose document, if any, is one of the given texts
WithTexts(results, texts) ==
    {r \in results : r.kind = "raise" \/ r.text \in texts}

\* the steps of summarize_papers.py once started, with the given texts of the
\* classifiers, results of the summary backend and outcomes of the writes
TriageSteps(texts, writes) ==
    \/ \E text \in texts, outcome \in writes : TriagePrimary(text, outcome)
    \/ TriagePrimaryFails
    \/ \E text \in texts, outcome \in writes :
           TriageFallback(text, <<UsageTokens>>, outcome)
    \/ TriageFallbackFails

\* the ingestion alone: several feeds into one store
NextCollect ==
    \/ \E data \in FeedData : CollectStart(data, MaxIngests)
    \/ CollectSteps

SpecCollect == Init /\ [][NextCollect]_vars

\* the steps of one row once call_llm is entered
SummarySteps(results, writes) ==
    \/ \E resp \in results, outcome \in writes : SummarizeSucceeds(resp, outcome)
    \/ \E resp \in results : SummarizeFails(resp)

\* one feed, then executions of the orchestrator over at most one row each,
\* forced or not, in the default environment, with every fault of the
\* classifiers and of the store, and a summary backend that answers or fails
\* for good
Next ==
    \/ \E data \in FeedData : CollectStart(data, One)
    \/ CollectSteps
    \/ \E ids \in IdsLists(One), force \in BOOLEAN :
           SummarizeStart(ids, force, DefaultEnv, MaxRuns)
    \/ VisitAlreadySummarized
    \/ VisitRow
    \/ TriageSteps(TriageTexts, WriteOutcomes)
    \/ SummarySteps(WithTexts(Steady(DefaultEnv), CoreTexts), WriteOutcomes)
    \/ Report

Spec == Init /\ [][Next]_vars

\* one feed, then one default execution in every environment with a
\* classifier that answers, and every result of every attempt of call_llm
NextRetry ==
    \/ \E data \in FeedData : CollectStart(data, One)
    \/ CollectSteps
    \/ \E env \in Envs : SummarizeStart(<<>>, FALSE, env, One)
    \/ VisitRow
    \/ \E text \in {YesText} : TriagePrimary(text, "ok")
    \/ SummarySteps(WithTexts(Responses, CoreTexts), WriteOutcomes)
    \/ \E resp \in Responses : CallLlmRetry(resp)
    \/ Report

SpecRetry == Init /\ [][NextRetry]_vars

\* one feed, then one unforced execution over an id list of several rows
NextBatch ==
    \/ \E data \in FeedData : CollectStart(data, One)
    \/ CollectSteps
    \/ \E ids \in IdsLists(MaxIds) : SummarizeStart(ids, FALSE, DefaultEnv, One)
    \/ VisitRow
    \/ \E text \in {YesText, NoText}, outcome \in WriteOutcomes :
           TriagePrimary(text, outcome)
    \/ SummarySteps(WithTexts(Steady(DefaultEnv), CoreTexts), WriteOutcomes)
    \/ Report

SpecBatch == Init /\ [][NextBatch]_vars

\* one feed, then one default execution in which the summary backend answers
\* with each of the documents, and the store works
NextDigest ==
    \/ \E data \in FeedData : CollectStart(data, One)
    \/ CollectSteps
    \/ SummarizeStart(<<>>, FALSE, DefaultEnv, One)
    \/ VisitRow
    \/ \E text \in {YesText} : TriagePrimary(text, "ok")
    \/ SummarySteps(Steady(DefaultEnv), {"ok"})
    \/ Report

SpecDigest == Init /\ [][NextDigest]_vars

\* one feed, then executions of the orchestrator over at most one row each,
\* forced or not, each of which may be interrupted at any point
NextCrash ==
    \/ \E data \in FeedData : CollectStart(data, One)
    \/ CollectSteps
    \/ \E ids \in IdsLists(One), force \in BOOLEAN :
           SummarizeStart(ids, force, DefaultEnv, MaxRuns)
    \/ VisitAlreadySummarized
    \/ VisitRow
    \/ \E text \in {YesText, NoText}, outcome \in WriteOutcomes :
           TriagePrimary(text, outcome)
    \/ SummarySteps(WithTexts(Steady(DefaultEnv), CoreTexts), WriteOutcomes)
    \/ Interrupt
    \/ Report

SpecCrash == Init /\ [][NextCrash]_vars

\* one feed, then one default execution in which the classifiers answer with
\* texts of varied case and wording, and the store and the summarizer work
NextTriage ==
    \/ \E data \in FeedData : CollectStart(data, One)
    \/ CollectSteps
    \/ SummarizeStart(<<>>, FALSE, DefaultEnv, One)
    \/ VisitRow
    \/ TriageSteps(ParseTexts, {"ok"})
    \/ SummarySteps(WithTexts(Steady(DefaultEnv), {TldrDoc}), {"ok"})
    \/ Report

SpecTriage == Init /\ [][NextTriage]_vars

\* one feed, then one default execution in which the classifiers answer with
\* or without a verdict, with every fault of the classifiers and of the store
NextVerdict ==
    \/ \E data \in FeedData : CollectStart(data, One)
    \/ CollectSteps
    \/ SummarizeStart(<<>>, FALSE, DefaultEnv, One)
    \/ VisitRow
    \/ TriageSteps({VagueText, YesText}, WriteOutcomes)
    \/ SummarySteps(WithTexts(Steady(DefaultEnv), {TldrDoc}), WriteOutcomes)
    \/ Report

SpecVerdict == Init /\ [][NextVerdict]_vars

\* the answers of the summary backend of an environment when it works
Answers(env) == {r \in call_llm_body(env) : r.kind = "return"}

\* one feed and no ingestion after it, then default executions, one after
\* the other, in which the classifier, the summary backend and the store
\* always succeed
NextProgress ==
    \/ \E data \in FeedData : CollectStart(data, One)
    \/ CollectSteps
    \/ SummarizeStart(<<>>, FALSE, DefaultEnv, MaxRuns)
    \/ VisitRow
    \/ \E text \in TriageTexts : TriagePrimary(text, "ok")
    \/ \E resp \in WithTexts(Answers(DefaultEnv), CoreTexts) :
           SummarizeSucceeds(resp, "ok")
    \/ Report

SpecProgress == Init /\ [][NextProgress]_vars

\* the app renders cards of rows with any score and any stored breakdown
NextCards ==
    \E score \in Scores, breakdown \in BreakdownTexts :
        RenderCard(score, breakdown)

SpecCards == Init /\ [][NextCards]_vars

\* ------------------------------------------------------------- the claims
InLlmCall == proc = "summarize" /\ run.pc \in {"triage", "fallback", "summarize"}

NoDuplicateIds(conn) ==
    \A i, j \in 1..Len(conn) : conn[i].arxiv_id = conn[j].arxiv_id => i = j

C2_Dedup == NoDuplicateIds(db) /\ NoDuplicateIds(pending)

\* C2 witness: a second ingestion met an identifier that is stored, skipped
\* it and added nothing.
C2_Witness ==
    /\ hist.ingests = 2
    /\ collect.exact_skips > 0
    /\ collect.new_count = 0
    /\ Len(db) > 0

\* C3 (as stated): once triage has completed with relevant = false for the
\* row, the summarizer is not called for it, the stored summary is the skip
\* sentinel, the stored digest is the triage reason and the score is the one
\* the row had when the run started.
C3_IrrelevantIsSkipped ==
    visit.triage = "irrelevant" =>
        /\ visit.summarizer_calls = 0
        /\ run.pc # "summarize"
        /\ db[visit.pid].summary_md = SkipSentinel
        /\ db[visit.pid].tldr = visit.reason
        /\ db[visit.pid].excitement_score = run.db0[visit.pid].excitement_score

\* C4: when triage raised for the row, no skip sentinel is written for it,
\* the run goes on (it is in the summarizer call, or back in the loop with
\* the row finished), and exactly one summarizer call is made for the row.
C4_TriageFailureAssumesRelevant ==
    visit.triage = "raised" =>
        /\ proc = "summarize"
        /\ visit.skip_write = "none"
        /\ run.pc \in {"summarize", "loop"}
        /\ run.pc = "summarize" => visit.summarizer_calls <= 1
        /\ run.pc = "loop" =>
               /\ visit.summarizer_calls = 1
               /\ visit.status \in {"summarized", "save_failed", "llm_failed"}

\* C4 witness: triage raised and the row was summarized all the same.
C4_Witness ==
    /\ visit.triage = "raised"
    /\ visit.status = "summarized"
    /\ db[visit.pid].summary_md # Null

\* C5: the fallback classifier is called only after the primary path failed,
\* and then exactly once; its answer reaches the orchestrator as a result
\* (with the fallback's model name), its failure as the failure of triage.
C5_FallbackOnce ==
    /\ visit.fallback_calls > 0 => visit.primary_failed
    /\ (visit.primary_failed /\ run.pc = "fallback") =>
           visit.fallback_calls = 0 /\ visit.triage = "none"
    /\ (visit.primary_failed /\ run.pc # "fallback") =>
           /\ visit.fallback_calls = 1
           /\ visit.triage \in {"relevant", "irrelevant", "raised"}
           /\ visit.triage # "raised" => visit.model = FallbackModel
    /\ (~visit.primary_failed /\ visit.triage # "none") =>
           visit.model = GEMINI_MODEL

\* C5 witness: the primary path failed and the fallback's verdict was used.
C5_Witness ==
    /\ visit.primary_failed
    /\ visit.fallback_calls = 1
    /\ visit.triage = "relevant"
    /\ visit.model = FallbackModel

\* C6 (as stated): a call of call_llm that ends in a transient failure has
\* made all STOP_AFTER_ATTEMPT attempts (fewer transient failures are
\* followed by another attempt) and persists nothing; a call that returns
\* has made one attempt more than it had failures, and the row is written
\* once.
C6_RetryOutcome ==
    /\ (visit.status = "llm_failed" /\ visit.exc \in TransientErrors) =>
           visit.attempts = STOP_AFTER_ATTEMPT
    /\ visit.status = "llm_failed" => db = run.db0
    /\ visit.status = "summarized" =>
           /\ visit.attempts = visit.waits + 1
           /\ visit.pid \in run.wrote

\* C7 (as stated): call_llm waits and attempts again only after a transient
\* failure; every other failure ends the call with the first attempt.
C7_NonTransientPropagates ==
    (InLlmCall /\ run.pc = "summarize" /\ visit.waits > 0) =>
        visit.exc \in TransientErrors

\* C8 (as stated): a row whose summarization failed (in call_llm or in
\* save_summary) and that no later visit of the run wrote is unchanged in the
\* store, so it is pending as before; the run goes on with the next row.
C8_FailureLeavesRecord ==
    proc = "summarize" =>
        /\ \A p \in run.failed \ run.wrote : db[p] = run.db0[p]
        /\ visit.status \in {"llm_failed", "save_failed"} => run.pc = "loop"

\* C9 (as stated): no execution of the orchestrator ends in an unhandled
\* exception of a row.
C9_RunCompletes == run.pc # "crashed"

\* C10 (as stated): without force, triage or summarizer are called for a row
\* only if its summary is absent, blank or the skip sentinel, and a row is
\* passed over as already summarized only if its summary is a genuine text.
Genuine(summary_md) == summary_md # SkipSentinel /\ Strip(summary_md) # <<>>

C10_GenuineLeftAlone ==
    /\ (InLlmCall /\ ~run.force) => ~Genuine(Row.summary_md)
    /\ (proc = "summarize" /\ visit.status = "already") =>
           Genuine(run.rows[run.idx - 1].summary_md)

\* C11 (as stated): the digest that a successful summarization persists has
\* at most TLDR_MAX characters, whatever document the summarizer returned.
C11_DigestBounded ==
    visit.status = "summarized" => Len(db[visit.pid].tldr) <= TLDR_MAX

\* C12 (as stated): for a persisted summary, the digest is the first
\* non-blank line after the first TLDR heading that has one (at any distance);
\* without a TLDR heading it is the first non-blank line cut to TLDR_MAX
\* characters; for a blank document it is empty.
TldrHeading(line) ==
    LET low == RemoveChar(Lower(line), ";")
    IN  StartsWith(low, H1Tldr) \/ StartsWith(low, H2Tldr)

ClaimedDigest(markdown, digest) ==
    LET raw == SplitLines(markdown)
        lines == [i \in 1..Len(raw) |-> Strip(raw[i])]
        n == Len(lines)
        nonblank == {i \in 1..n : lines[i] # <<>>}
        headed == {i \in 1..n : TldrHeading(lines[i])
                                  /\ \E j \in nonblank : j > i}
        least(S) == CHOOSE i \in S : \A j \in S : i <= j
    IN  IF headed # {}
        THEN digest = lines[least({j \in nonblank : j > least(headed)})]
        ELSE IF \E i \in 1..n : TldrHeading(lines[i]) THEN TRUE
        ELSE IF nonblank # {}
             THEN digest = SubSeq(lines[least(nonblank)], 1,
                                  Min(TLDR_MAX, Len(lines[least(nonblank)])))
        ELSE digest = <<>>

C12_DigestChain ==
    visit.status = "summarized" =>
        ClaimedDigest(db[visit.pid].summary_md, db[visit.pid].tldr)

\* C13 (as stated): a candidate is skipped only if a row of the store has
\* exactly its identifier, so a candidate whose identifier is merely part of
\* a stored identifier or link is inserted; an inserted row has summary,
\* digest and score unset and carries its ingestion time.
C13_SkipOnlyExact ==
    /\ collect.inexact_skips = 0
    /\ \A i \in 1..Len(pending) :
           /\ pending[i].summary_md = Null
           /\ pending[i].tldr = Null
           /\ pending[i].excitement_score = NoInt
           /\ pending[i].date_added # NoInt

\* C14 (as stated): a failed insert adds nothing to the store, so the rows
\* the ingestion added are the ones it counted as added; and when the
\* ingestion has ended, the counts it reports cover each of its n candidates.
C14_TallyAndIsolation ==
    /\ Len(db) = collect.len0 + collect.new_count
    /\ (proc = "idle" /\ ~collect.crashed) =>
           CollectReport.added + CollectReport.skipped = collect.n

\* C15 (as stated): a configuration error (a provider mode that is not one of
\* the known ones, an unset API key, a missing SDK) ends the run before a
\* paper is triaged and before a record is written, and the call that failed
\* on it is made once, without a wait and another attempt.
KnownProviders == {"openai", "anthropic", "ollama"}
ConfigErrors == {"RuntimeError", "openai.OpenAIError", "ImportError"}

C15_ConfigFatalAtStartup ==
    /\ (proc = "summarize" /\ run.env.provider \notin KnownProviders) =>
           /\ ~InLlmCall
           /\ run.triaged_count = 0
           /\ db = run.db0
    /\ (proc = "summarize" /\ visit.exc \in ConfigErrors) =>
           /\ visit.waits = 0
           /\ run.triaged_count = 0

\* C16: the committed table is what an interruption of the run leaves
\* behind. In every state each committed row is as it was when the run
\* started, or holds summary, digest, model, token count and timestamp of one
\* answer of the summarizer, or holds the skip sentinel with the triage
\* reason; and after an interruption, a row that was pending, whose processing
\* had started and which is unchanged in the table is selected again by the
\* unforced run with the same selector.
SummaryOutcome(row) ==
    \E resp \in WithTexts(Responses, CoreTexts) :
        /\ resp.kind = "return"
        /\ row.summary_md = Strip(resp.text)
        /\ row.tldr = extract_tldr(row.summary_md)
        /\ row.model_used = resp.model
        /\ row.summary_tokens = resp.tokens
        /\ row.last_summarized_at # NoInt

SkipOutcome(row) ==
    /\ row.summary_md = SkipSentinel
    /\ row.tldr # Null

Selects(rows, pid) == \E k \in 1..Len(rows) : rows[k].id = pid

C17_OncePerRecord ==
    (proc = "summarize" /\ ~run.force) =>
        /\ \A k \in 1..Len(run.rows) : run.rows[k].id \in 1..Len(run.db0)
        /\ InLlmCall =>
               \A k \in 1..(run.idx - 1) : run.rows[k].id # Row.id

\* C18: rows are numbered in the order they were added. A run without id
\* list and without force selects, most recent first, the
\* min(BATCH_LIMIT, number of pending rows) most recent of the pending rows,
\* a row being pending when its summary or its digest is absent or blank
\* (NULL, or empty once the spaces around it are removed, which is what TRIM
\* removes); a row with both is not selected. With force and without id list
\* it selects the same way among all rows.
Absent(x) == x = Null \/ SqlTrim(x) = <<>>

MostRecentOf(rows, S) ==
    LET sel == {rows[k].id : k \in 1..Len(rows)}
    IN  /\ sel \subseteq S
        /\ Len(rows) = Min(BATCH_LIMIT, Cardinality(S))
        /\ \A k, l \in 1..Len(rows) : k < l => rows[k].id > rows[l].id
        /\ \A i \in sel, j \in S \ sel : j < i

C19_TransientRetriedEverywhere ==
    \A provider \in KnownProviders :
        (/\ proc = "summarize"
         /\ run.env.provider = provider
         /\ visit.status = "llm_failed"
         /\ visit.exc \in TransientErrors) =>
            visit.waits = STOP_AFTER_ATTEMPT - 1

\* C20 (as stated): an execution that has ended normally has printed the
\* pipeline summary, also when nothing was selected; and when the loop has
\* ended, the summary shows the estimated cost, its count of skipped papers
\* is the number of records the run left in the store with the skip sentinel,
\* its count of summarized papers is the number of records the run left with
\* a summary, and the two counts together do not exceed the papers visited.
PersistedInRun == {p \in 1..Len(run.db0) : p \in run.wrote \/ db[p] # run.db0[p]}

SkipsPersisted == {p \in PersistedInRun : db[p].summary_md = SkipSentinel}

C20_Statistics ==
    /\ (proc = "idle" /\ hist.lastOp \in {"default", "other"}) => hist.reported
    /\ (proc = "summarize" /\ run.pc = "loop" /\ run.idx > Len(run.rows)) =>
           /\ PipelineSummary.cost_shown
           /\ PipelineSummary.skipped = Cardinality(SkipsPersisted)
           /\ PipelineSummary.summarized =
                  Cardinality(PersistedInRun \ SkipsPersisted)
           /\ PipelineSummary.skipped + PipelineSummary.summarized
                  <= Len(run.rows)

\* C21 (as stated): in every score block that is shown, the value shown for
\* a dimension is at most the maximum of that dimension.
C21_BreakdownWithinMaxima ==
    \A c \in 1..Len(page) :
        page[c].shown =>
            \A n \in 1..Len(page[c].bits) :
                page[c].bits[n].val <= page[c].bits[n].max_val

\* C22 (as stated): for an answer with a verdict line and a reason line, in
\* any letter case, triage takes the paper as relevant exactly when the
\* verdict line says YES, and the reason is the text of the reason line;
\* text elsewhere in the answer changes neither.
RelevantTag == <<"R","E","L","E","V","A","N","T",":">>
YesWord == <<"Y","E","S">>

LinesOf(answer) ==
    LET raw == Split(answer, "\n")
    IN  [n \in 1..Len(raw) |-> Strip(raw[n])]

VerdictLines(answer) ==
    SelectSeq(LinesOf(answer), LAMBDA l : StartsWith(Upper(l), RelevantTag))

ReasonLines(answer) ==
    SelectSeq(LinesOf(answer), LAMBDA l : StartsWith(Upper(l), ReasonTag))

C22_VerdictAndReason ==
    (/\ visit.triage \in {"relevant", "irrelevant"}
     /\ VerdictLines(visit.answer) # <<>>
     /\ ReasonLines(visit.answer) # <<>>) =>
        /\ (visit.triage = "relevant") <=>
               StartsWith(Strip(AfterFirst(Upper(VerdictLines(visit.answer)[1]),
                                           ":")), YesWord)
        /\ visit.reason = Strip(AfterFirst(ReasonLines(visit.answer)[1], ":"))

\* C23 (as stated): when the classifier, the summarizer and the store
\* succeed, a default run leaves every record it has processed with a
\* non-blank summary and a non-blank digest, so the record is not selected
\* again and the selection of repeated runs moves on to older records until
\* it is empty.
C23_RunMakesProgress ==
    (proc = "summarize" /\ IsDefaultRun /\ run.pc = "loop") =>
        \A k \in 1..(run.idx - 1) :
            /\ ~Absent(db[run.rows[k].id].summary_md)
            /\ ~Absent(db[run.rows[k].id].tldr)
            /\ ~Selects(fetch_papers(db, <<>>, FALSE), run.rows[k].id)

\* C24 (as stated): a step of the orchestrator changes no stored record
\* other than the one being processed; the skip write changes at most the
\* summary and the digest of that record, and the summary write at most its
\* summary, digest, model name, token count and last-summarized timestamp.
SameButSkipFields(a, b) ==
    [a EXCEPT !.summary_md = Null, !.tldr = Null] =
    [b EXCEPT !.summary_md = Null, !.tldr = Null]

SameButSummaryFields(a, b) ==
    [a EXCEPT !.summary_md = Null, !.tldr = Null, !.model_used = Null,
              !.summary_tokens = NoInt, !.last_summarized_at = NoInt] =
    [b EXCEPT !.summary_md = Null, !.tldr = Null, !.model_used = Null,
              !.summary_tokens = NoInt, !.last_summarized_at = NoInt]

FrameOfStep ==
    proc = "summarize" =>
        \A p \in 1..Len(db) :
            db'[p] # db[p] =>
                /\ InLlmCall
                /\ p = Row.id
                /\ run.pc \in {"triage", "fallback"} =>
                       SameButSkipFields(db[p], db'[p])
                /\ run.pc = "summarize" =>
                       SameButSummaryFields(db[p], db'[p])

C24_Frame == [][FrameOfStep]_vars

\* C25 (as stated): when the loop has ended, the counts of the pipeline
\* summary are ordered: skipped <= triaged <= selected rows,
\* summarized <= triaged (a pass rate of at most 100%), and
\* skipped + summarized <= selected rows.
C25_CounterOrdering ==
    (proc = "summarize" /\ run.pc = "loop" /\ run.idx > Len(run.rows)) =>
        /\ PipelineSummary.skipped <= PipelineSummary.triaged
        /\ PipelineSummary.triaged <= Len(run.rows)
        /\ PipelineSummary.summarized <= PipelineSummary.triaged
        /\ PipelineSummary.skipped + PipelineSummary.summarized
               <= Len(run.rows)

\* C26 (as stated): when a classifier has answered without the text
\* 'RELEVANT: YES', triage has returned relevant = false, the skip sentinel
\* is stored for the paper and the summarizer is not called for it.
C26_UnparseableIsSkipped ==
    (/\ proc = "summarize"
     /\ visit.answer # Null
     /\ ~Contains(Upper(visit.answer), RelevantYes)) =>
        /\ visit.triage = "irrelevant"
        /\ run.pc # "summarize"
        /\ visit.summarizer_calls = 0
        /\ db[visit.pid].summary_md = SkipSentinel

====
